---- MODULE Spec2Model ----
(***************************************************************************)
(* A state-machine model of the cellular-automaton engine of src/lib.rs:   *)
(* the Model struct (grid, rule list, pacing timestamp, pause flag, paint  *)
(* state), its event handler, and the generation advance `update`, whose   *)
(* loop over rules and anchors is modelled one rule application per step.  *)
(***************************************************************************)
EXTENDS Integers, Sequences, FiniteSets, TLC

VARIABLES
    GRID_SIZE,   \* the const generic GRID_SIZE of Model / Grid
    active,      \* Model.active: the current grid, active[x][y]
    rules,       \* Model.rules
    elapsed,     \* Model.last.elapsed().as_millis(): ms since Model.last
    paused,      \* Model.paused
    fill_state,  \* Model.fill_state
    pc,          \* "idle" | "advancing" (inside update's loop) | "panicked"
    inactive,    \* update's local next-generation buffer
    rule_idx,    \* position of update's outer loop (1-based index in rules)
    cell_idx,    \* position of update's inner loop (index in indexed_iter)
    fired,       \* whether the last rule application matched and wrote
    written,     \* per cell, the index of the last rule that wrote it in this
                 \* run of update's loop (0: none has)
    op,          \* the last handler called and the input it was called with
    gen          \* generations completed since construction, counted up to
                 \* MaxGen (MaxGen: that many or more; the specifications
                 \* that number no generations start there)

vars == <<GRID_SIZE, active, rules, elapsed, paused, fill_state, pc, inactive,
          rule_idx, cell_idx, fired, written, op, gen>>

-----------------------------------------------------------------------------
(* Bounds of the model *)

\* elapsed time saturates here: every value >= 50 passes the pacing gate alike
MaxElapsed == 75
\* the clock advances in steps of this many milliseconds
ClockStep == 25
\* gen saturates here (gen = MaxGen means "MaxGen generations or more")
MaxGen == 5

\* grid sizes the rule specifications draw from (N = 4 has 65536 grids)
GridSizes == {2, 3}

-----------------------------------------------------------------------------
(* State, Grid *)

Full == "Full"
Empty == "Empty"
\* Option::None, for an absent cell and for a wildcard pattern entry
None == "None"

State == {Full, Empty}

\* State::default
default_state == Empty

Coords(n) == 0 .. (n - 1)

Grids(n) == [Coords(n) -> [Coords(n) -> State]]

\* Grid::default: every cell State::default
default_grid(n) == [x \in Coords(n) |-> [y \in Coords(n) |-> default_state]]

\* the grid whose Full cells are exactly the coordinate pairs in cells
GridOf(n, cells) ==
    [x \in Coords(n) |-> [y \in Coords(n) |->
        IF <<x, y>> \in cells THEN Full ELSE Empty]]

\* Grid::get_cell / get_col: the cell, or None when x or y is out of range
get_cell(g, n, x, y) ==
    IF x \in Coords(n) /\ y \in Coords(n) THEN g[x][y] ELSE None

\* a scan that walks the rows first
indexed_iter_row_major(n, c) == <<c % n, c \div n>>

\* Grid::indexed_iter: the c-th item's coordinates (columns, then cells)
indexed_iter(n, c) == <<c \div n, c % n>>

\* `as usize` of an i64: two's-complement wrap.  The width is 64 bits in the
\* program; any modulus above GRID_SIZE + 1 gives the same lookups, and 2^30
\* is one the model checker's integers hold.
UsizeModulus == 2 ^ 30

\* a cast that saturates at 0 instead of wrapping
as_usize_saturating(v) == IF v < 0 THEN 0 ELSE v

as_usize(v) == v % UsizeModulus

-----------------------------------------------------------------------------
(* Comparison *)

Equal(v) == [tag |-> "Equal", value |-> v]
NotEqual(v) == [tag |-> "NotEqual", value |-> v]
GreaterThan(v) == [tag |-> "GreaterThan", value |-> v]
LessThan(v) == [tag |-> "LessThan", value |-> v]
GreaterThanOrEqual(v) == [tag |-> "GreaterThanOrEqual", value |-> v]
LessThanOrEqual(v) == [tag |-> "LessThanOrEqual", value |-> v]
BetweenExclusive(lo, hi) == [tag |-> "BetweenExclusive", lower |-> lo, upper |-> hi]
BetweenInclusive(lo, hi) == [tag |-> "BetweenInclusive", lower |-> lo, upper |-> hi]

\* a compare whose BetweenExclusive takes its bounds in
compare_between_inclusive(comp, other) ==
    CASE comp.tag = "Equal" -> other = comp.value
      [] comp.tag = "NotEqual" -> other # comp.value
      [] comp.tag = "GreaterThan" -> other > comp.value
      [] comp.tag = "LessThan" -> other < comp.value
      [] comp.tag = "GreaterThanOrEqual" -> other >= comp.value
      [] comp.tag = "LessThanOrEqual" -> other <= comp.value
      [] comp.tag = "BetweenExclusive" -> comp.lower <= other /\ other <= comp.upper
      [] comp.tag = "BetweenInclusive" -> comp.lower <= other /\ other <= comp.upper

\* Comparison::compare
compare(comp, other) ==
    CASE comp.tag = "Equal" -> other = comp.value
      [] comp.tag = "NotEqual" -> other # comp.value
      [] comp.tag = "GreaterThan" -> other > comp.value
      [] comp.tag = "LessThan" -> other < comp.value
      [] comp.tag = "GreaterThanOrEqual" -> other >= comp.value
      [] comp.tag = "LessThanOrEqual" -> other <= comp.value
      [] comp.tag = "BetweenExclusive" -> comp.lower < other /\ other < comp.upper
      [] comp.tag = "BetweenInclusive" -> comp.lower <= other /\ other <= comp.upper

-----------------------------------------------------------------------------
(* Rule *)

Linear(in_state, out_state) ==
    [kind |-> "Linear", in_state |-> in_state, out_state |-> out_state]

Radial(current_state, surroundings, final_state) ==
    [kind |-> "Radial", current_state |-> current_state,
     surroundings |-> surroundings, final_state |-> final_state]

\* the (ri, rj) offsets of a pattern's entries, as enumerate() numbers them
Offsets(pattern) ==
    UNION {{<<ri, rj>> : rj \in 0 .. (Len(pattern[ri + 1]) - 1)} :
              ri \in 0 .. (Len(pattern) - 1)}

Entry(pattern, o) == pattern[o[1] + 1][o[2] + 1]

\* filter_map: the offsets whose entry is Some
NonWildcard(pattern) == {o \in Offsets(pattern) : Entry(pattern, o) # None}

\* the order in which flat_map visits the offsets
Before(o1, o2) == o1[1] < o2[1] \/ (o1[1] = o2[1] /\ o1[2] < o2[2])

\* Option::is_some_and(|cell| cell == &rule_cell)
is_some_and_eq(cell, rule_cell) == cell # None /\ cell = rule_cell

\* a match test that consults the current grid only
linear_matches_active_only(act, inact, n, cell_cords, in_state) ==
    \A o \in NonWildcard(in_state) :
        is_some_and_eq(get_cell(act, n, cell_cords[1] + o[1], cell_cords[2] + o[2]),
                       Entry(in_state, o))

\* a match test that consults the buffer only
linear_matches_inactive_only(act, inact, n, cell_cords, in_state) ==
    \A o \in NonWildcard(in_state) :
        is_some_and_eq(get_cell(inact, n, cell_cords[1] + o[1], cell_cords[2] + o[2]),
                       Entry(in_state, o))

\* a match test that wants every offset of the pattern, wildcard or not, in
\* the grid
linear_matches_strict_wildcard(act, inact, n, cell_cords, in_state) ==
    /\ \A o \in Offsets(in_state) :
           get_cell(act, n, cell_cords[1] + o[1], cell_cords[2] + o[2]) # None
    /\ \A o \in NonWildcard(in_state) :
           /\ is_some_and_eq(get_cell(act, n, cell_cords[1] + o[1], cell_cords[2] + o[2]),
                             Entry(in_state, o))
           /\ is_some_and_eq(get_cell(inact, n, cell_cords[1] + o[1], cell_cords[2] + o[2]),
                             Entry(in_state, o))

\* Model::linear, the condition: every Some entry of in_state equals the cell
\* at its offset in self.active and in inactive
linear_matches(act, inact, n, cell_cords, in_state) ==
    \A o \in NonWildcard(in_state) :
        /\ is_some_and_eq(get_cell(act, n, cell_cords[1] + o[1], cell_cords[2] + o[2]),
                          Entry(in_state, o))
        /\ is_some_and_eq(get_cell(inact, n, cell_cords[1] + o[1], cell_cords[2] + o[2]),
                          Entry(in_state, o))

\* the Some entries of out_state whose target index is outside the grid:
\* IndexMut panics on the first of them
OutOfRangeWrites(n, cell_cords, out_state) ==
    {o \in NonWildcard(out_state) :
        ~ (cell_cords[1] + o[1] \in Coords(n) /\ cell_cords[2] + o[2] \in Coords(n))}

\* Model::linear, the write loop: the buffer after the writes made, and
\* whether IndexMut panicked (the writes before the panicking one are made)
linear_write(inact, n, cell_cords, out_state) ==
    LET bad == OutOfRangeWrites(n, cell_cords, out_state)
        made == {o \in NonWildcard(out_state) : \A b \in bad : Before(o, b)}
    IN  [panic |-> bad # {},
         wrote |-> {<<cell_cords[1] + o[1], cell_cords[2] + o[2]>> : o \in made},
         inactive |->
            [x \in Coords(n) |-> [y \in Coords(n) |->
                IF <<x - cell_cords[1], y - cell_cords[2]>> \in made
                THEN Entry(out_state, <<x - cell_cords[1], y - cell_cords[2]>>)
                ELSE inact[x][y]]]]

\* Model::linear
linear(act, inact, n, cell_cords, in_state, out_state) ==
    IF linear_matches(act, inact, n, cell_cords, in_state)
    THEN LET w == linear_write(inact, n, cell_cords, out_state)
         IN  [fired |-> TRUE, panic |-> w.panic, wrote |-> w.wrote,
              inactive |-> w.inactive]
    ELSE [fired |-> FALSE, panic |-> FALSE, wrote |-> {}, inactive |-> inact]

\* the nine offsets of (-1..=1) x (-1..=1), (0, 0) not filtered out
neighbour_offsets_with_self ==
    << <<-1, -1>>, <<-1, 0>>, <<-1, 1>>, <<0, -1>>, <<0, 0>>, <<0, 1>>,
       <<1, -1>>, <<1, 0>>, <<1, 1>> >>

\* Model::radial: (-1..=1) x (-1..=1) without (0, 0), in iteration order
neighbour_offsets ==
    << <<-1, -1>>, <<-1, 0>>, <<-1, 1>>, <<0, -1>>, <<0, 1>>,
       <<1, -1>>, <<1, 0>>, <<1, 1>> >>

\* Model::radial: the lookup of one neighbour through the i64 -> usize cast
neighbour_lookup(act, n, cell_cords, r) ==
    get_cell(act, n, as_usize(cell_cords[1] + r[1]), as_usize(cell_cords[2] + r[2]))

\* Model::radial: `cells`, the neighbours that are present (filter_map)
neighbour_cells(act, n, cell_cords) ==
    SelectSeq([k \in 1 .. Len(neighbour_offsets) |->
                  neighbour_lookup(act, n, cell_cords, neighbour_offsets[k])],
              LAMBDA c : c # None)

\* Model::radial: cells.iter().filter(|val| val == req_state).count()
neighbour_count(act, n, cell_cords, req_state) ==
    Len(SelectSeq(neighbour_cells(act, n, cell_cords), LAMBDA c : c = req_state))

\* Model::radial: surroundings.iter().all(...)
surroundings_hold(act, n, cell_cords, surroundings) ==
    \A p \in 1 .. Len(surroundings) :
        compare(surroundings[p].comp,
                neighbour_count(act, n, cell_cords, surroundings[p].req_state))

\* a radial write that yields to a write already made to the anchor this tick
radial_first_write_wins(act, inact, n, cell, cell_cords, current_state, surroundings, final_state) ==
    IF current_state = cell /\ surroundings_hold(act, n, cell_cords, surroundings)
    THEN IF inact[cell_cords[1]][cell_cords[2]] = cell
         THEN [fired |-> TRUE, panic |-> FALSE, wrote |-> {cell_cords},
               inactive |-> [inact EXCEPT ![cell_cords[1]][cell_cords[2]] = final_state]]
         ELSE [fired |-> TRUE, panic |-> FALSE, wrote |-> {}, inactive |-> inact]
    ELSE [fired |-> FALSE, panic |-> FALSE, wrote |-> {}, inactive |-> inact]

\* a radial test that reads the anchor and counts its neighbours in the
\* buffer
radial_reads_buffer(act, inact, n, cell, cell_cords, current_state, surroundings, final_state) ==
    IF /\ current_state = inact[cell_cords[1]][cell_cords[2]]
       /\ surroundings_hold(inact, n, cell_cords, surroundings)
    THEN [fired |-> TRUE, panic |-> FALSE, wrote |-> {cell_cords},
          inactive |-> [inact EXCEPT ![cell_cords[1]][cell_cords[2]] = final_state]]
    ELSE [fired |-> FALSE, panic |-> FALSE, wrote |-> {}, inactive |-> inact]

\* a radial write of the paint state instead of final_state
radial_writes_fill_state(act, inact, n, cell, cell_cords, current_state, surroundings, final_state) ==
    IF current_state = cell /\ surroundings_hold(act, n, cell_cords, surroundings)
    THEN [fired |-> TRUE, panic |-> FALSE, wrote |-> {cell_cords},
          inactive |-> [inact EXCEPT ![cell_cords[1]][cell_cords[2]] = fill_state]]
    ELSE [fired |-> FALSE, panic |-> FALSE, wrote |-> {}, inactive |-> inact]

\* Model::radial
radial(act, inact, n, cell, cell_cords, current_state, surroundings, final_state) ==
    IF current_state = cell /\ surroundings_hold(act, n, cell_cords, surroundings)
    THEN [fired |-> TRUE, panic |-> FALSE, wrote |-> {cell_cords},
          inactive |-> [inact EXCEPT ![cell_cords[1]][cell_cords[2]] = final_state]]
    ELSE [fired |-> FALSE, panic |-> FALSE, wrote |-> {}, inactive |-> inact]

\* update, the loop body: the match on the rule's variant
apply_rule(act, inact, n, rule, cell_cords) ==
    IF rule.kind = "Linear"
    THEN linear(act, inact, n, cell_cords, rule.in_state, rule.out_state)
    ELSE radial(act, inact, n, act[cell_cords[1]][cell_cords[2]], cell_cords,
                rule.current_state, rule.surroundings, rule.final_state)

-----------------------------------------------------------------------------
(* update: the pause / pacing gate, the loop, the buffer swap *)

\* the pacing floor of update, in milliseconds
MIN_INTERVAL == 50

\* a gate that looks at the pause flag only
update_gate_ignoring_floor(is_paused, elapsed_ms) == is_paused

\* a gate that looks at the pacing floor only
update_gate_ignoring_pause(is_paused, elapsed_ms) == elapsed_ms < MIN_INTERVAL

\* update: `model.paused || model.last.elapsed().as_millis() < 50`
update_gate(is_paused, elapsed_ms) == is_paused \/ elapsed_ms < MIN_INTERVAL

OpModel == [h |-> "model", ev |-> "none", down |-> FALSE]
OpUpdate == [h |-> "update", ev |-> "none", down |-> FALSE]

Min(a, b) == IF a < b THEN a ELSE b

NoneWritten(n) == [x \in Coords(n) |-> [y \in Coords(n) |-> 0]]

\* time passes between two calls of the host loop
Clock ==
    /\ pc = "idle"
    /\ elapsed < MaxElapsed
    /\ elapsed' = Min(elapsed + ClockStep, MaxElapsed)
    /\ UNCHANGED <<GRID_SIZE, active, rules, paused, fill_state, pc, inactive,
                   rule_idx, cell_idx, fired, written, op, gen>>

\* update called while paused or before the pacing floor: the early return
UpdateGated ==
    /\ pc = "idle"
    /\ update_gate(paused, elapsed)
    /\ op' = OpUpdate
    /\ UNCHANGED <<GRID_SIZE, active, rules, elapsed, paused, fill_state, pc,
                   inactive, rule_idx, cell_idx, fired, written, gen>>

\* an update whose buffer starts as the default grid, not as a copy
UpdateBeginFromDefault ==
    /\ pc = "idle"
    /\ ~ update_gate(paused, elapsed)
    /\ elapsed' = 0
    /\ inactive' = default_grid(GRID_SIZE)
    /\ rule_idx' = 1
    /\ cell_idx' = 0
    /\ fired' = FALSE
    /\ written' = NoneWritten(GRID_SIZE)
    /\ pc' = "advancing"
    /\ op' = OpUpdate
    /\ UNCHANGED <<GRID_SIZE, active, rules, paused, fill_state, gen>>

\* update past the gate: model.last = Instant::now(); inactive = active.clone()
UpdateBegin ==
    /\ pc = "idle"
    /\ ~ update_gate(paused, elapsed)
    /\ elapsed' = 0
    /\ inactive' = active
    /\ rule_idx' = 1
    /\ cell_idx' = 0
    /\ fired' = FALSE
    /\ written' = NoneWritten(GRID_SIZE)
    /\ pc' = "advancing"
    /\ op' = OpUpdate
    /\ UNCHANGED <<GRID_SIZE, active, rules, paused, fill_state, gen>>

\* one pass of the loop body: rule rule_idx at the cell_idx-th cell of
\* indexed_iter; an out-of-range write panics and ends the program
ApplyRule ==
    /\ pc = "advancing"
    /\ rule_idx <= Len(rules)
    /\ LET r == apply_rule(active, inactive, GRID_SIZE, rules[rule_idx],
                           indexed_iter(GRID_SIZE, cell_idx))
           last_cell == cell_idx + 1 = GRID_SIZE * GRID_SIZE
       IN  /\ inactive' = r.inactive
           /\ fired' = r.fired
           /\ written' = [x \in Coords(GRID_SIZE) |-> [y \in Coords(GRID_SIZE) |->
                              IF <<x, y>> \in r.wrote THEN rule_idx ELSE written[x][y]]]
           /\ pc' = IF r.panic THEN "panicked" ELSE "advancing"
           /\ rule_idx' = IF ~ r.panic /\ last_cell THEN rule_idx + 1 ELSE rule_idx
           /\ cell_idx' = IF r.panic THEN cell_idx
                          ELSE IF last_cell THEN 0 ELSE cell_idx + 1
    /\ UNCHANGED <<GRID_SIZE, active, rules, elapsed, paused, fill_state, op, gen>>

\* the loop is over: model.active = inactive
UpdateEnd ==
    /\ pc = "advancing"
    /\ rule_idx > Len(rules)
    /\ active' = inactive
    /\ pc' = "idle"
    /\ rule_idx' = 0
    /\ cell_idx' = 0
    /\ fired' = FALSE
    /\ written' = NoneWritten(GRID_SIZE)
    /\ gen' = Min(gen + 1, MaxGen)
    /\ UNCHANGED <<GRID_SIZE, rules, elapsed, paused, fill_state, inactive, op>>

NextTick == Clock \/ UpdateGated \/ UpdateBegin \/ ApplyRule \/ UpdateEnd

-----------------------------------------------------------------------------
(* Model::model, and the rules the specifications construct engines with *)

\* Option<Grid>: << >> is None, << g >> is Some(g)
Some(g) == << g >>

\* Option::unwrap_or_default on the seed grid
unwrap_or_default(starting_state, n) ==
    IF Len(starting_state) = 0 THEN default_grid(n) ELSE starting_state[1]

\* Model::model: the fields of the engine it returns
model(starting_state, rule_list, is_paused, n) ==
    [active |-> unwrap_or_default(starting_state, n),
     rules |-> rule_list,
     paused |-> is_paused,
     fill_state |-> default_state]

Constructed(n, starting_state, rule_list, is_paused) ==
    LET m == model(starting_state, rule_list, is_paused, n)
    IN  /\ GRID_SIZE = n
        /\ active = m.active
        /\ rules = m.rules
        /\ paused = m.paused
        /\ fill_state = m.fill_state
        /\ elapsed = 0
        /\ pc = "idle"
        /\ inactive = m.active
        /\ rule_idx = 0
        /\ cell_idx = 0
        /\ fired = FALSE
        /\ written = NoneWritten(n)
        /\ op = OpModel

Req(req_state, comp) == [req_state |-> req_state, comp |-> comp]

\* a Full cell above an Empty cell swaps with it
Gravity == Linear(<< <<Full, Empty>> >>, << <<Empty, Full>> >>)
\* a Full cell resting on a Full cell slides to the Empty cell below right
SlideRight == Linear(<< <<Full, Full>>, <<None, Empty>> >>,
                     << <<Empty, Full>>, <<None, Full>> >>)
\* a Full cell resting on a Full cell slides to the Empty cell below left
SlideLeft == Linear(<< <<None, Empty>>, <<Full, Full>> >>,
                    << <<None, Full>>, <<Empty, Full>> >>)
\* a Full cell left of an Empty cell swaps with it
Sideways == Linear(<< <<Full>>, <<Empty>> >>, << <<Empty>>, <<Full>> >>)
\* a Full cell moves down whatever is below it (wildcard in, Some out)
FallAny == Linear(<< <<Full, None>> >>, << <<Empty, Full>> >>)
\* a Full cell is cleared whatever is below it (wildcard in and out)
ClearTop == Linear(<< <<Full, None>> >>, << <<Empty, None>> >>)
\* a Full cell above two Empty cells drops two rows (three cells tall)
DropTwo == Linear(<< <<Full, Empty, Empty>> >>, << <<Empty, Empty, Full>> >>)

\* the Game of Life rules
Birth == Radial(Empty, << Req(Full, Equal(3)) >>, Full)
Lonely == Radial(Full, << Req(Full, LessThan(2)) >>, Empty)
Crowded == Radial(Full, << Req(Full, GreaterThan(3)) >>, Empty)
\* pairs of rules that can fire together at one anchor
Sprout == Radial(Empty, << Req(Full, GreaterThanOrEqual(1)) >>, Full)
Stay == Radial(Empty, << Req(Empty, GreaterThanOrEqual(2)) >>, Empty)
Fade == Radial(Full, << >>, Empty)
Hold == Radial(Full, << Req(Full, BetweenInclusive(1, 8)), Req(Empty, NotEqual(0)) >>, Full)
\* a range whose lower bound is above its upper bound
Inverted == Radial(Full, << Req(Full, BetweenExclusive(3, 1)) >>, Empty)

RuleLists ==
    { << >>,
      << Gravity >>,
      << Gravity, Gravity >>,
      << Sideways, Gravity >>,
      << Gravity, SlideRight, SlideLeft >>,
      << FallAny >>,
      << ClearTop >>,
      << DropTwo >>,
      << Birth, Lonely, Crowded >>,
      << Sprout, Stay >>,
      << Stay, Sprout >>,
      << Sprout, Stay, Sprout >>,
      << Fade, Hold >>,
      << Inverted, Gravity >> }

\* engines built over every grid of the sizes in GridSizes with each of the
\* rule lists, unpaused
InitRules ==
    \E n \in GridSizes : \E g \in Grids(n) : \E rl \in RuleLists :
        Constructed(n, Some(g), rl, FALSE) /\ gen = MaxGen

SpecRules == InitRules /\ [][NextTick]_vars

-----------------------------------------------------------------------------
(* event: painting, pausing, resetting, cycling the paint state *)

\* a successor that stops at Full instead of cycling
next_saturating(state) == Full

\* State::next
next(state) == IF state = Full THEN Empty ELSE Full

\* State::prev
prev(state) == IF state = Full THEN Empty ELSE Full

\* a cast of the quotient that wraps like an integer cast instead of
\* saturating
float_as_usize_wrapping(q) == q % UsizeModulus

\* `as usize` of an f32: the fraction is dropped and the value saturates, so
\* a negative quotient becomes 0
float_as_usize(q) == IF q < 0 THEN 0 ELSE q

Max(a, b) == IF a > b THEN a ELSE b

\* update_grid: x.min(GRID_SIZE - 1).max(0)
clamp(v, n) == Max(Min(v, n - 1), 0)

\* update_grid: pos is the pointer's position in cell widths and heights,
\* ((pos.x - win.x.start) / w, (win.y.end - pos.y) / h)
update_grid(m, n, pos) ==
    [m EXCEPT !.active[clamp(float_as_usize(pos[1]), n)][clamp(float_as_usize(pos[2]), n)]
                  = m.fill_state]

\* event: the update_grid call made first when the left button is down
paint_if_down(m, n, down, mouse_pos) ==
    IF down THEN update_grid(m, n, mouse_pos) ELSE m

\* event: the match on the event
dispatch(m, n, ev) ==
    CASE ev.kind = "Touch" -> update_grid(m, n, ev.pos)
      [] ev.kind = "KeyPressed" ->
            (CASE ev.key = "P" -> [m EXCEPT !.paused = ~ m.paused]
               [] ev.key = "C" -> [m EXCEPT !.active = default_grid(n)]
               [] OTHER -> m)
      [] ev.kind = "MouseWheel" ->
            (IF ev.phase = "Moved"
             THEN IF ev.y > 0 THEN [m EXCEPT !.fill_state = next(m.fill_state)]
                  ELSE IF ev.y < 0 THEN [m EXCEPT !.fill_state = prev(m.fill_state)]
                  ELSE m
             ELSE m)
      [] OTHER -> m

\* an event handler that paints after the match instead of before it
event_paint_last(m, n, down, mouse_pos, ev) ==
    paint_if_down(dispatch(m, n, ev), n, down, mouse_pos)

\* event
event(m, n, down, mouse_pos, ev) ==
    dispatch(paint_if_down(m, n, down, mouse_pos), n, ev)

\* pointer positions, in cells: below 0, inside, and at N (at or beyond)
RawCoords(n) == (-1) .. n

\* the events the host can deliver (LineDelta and PixelDelta are handled
\* alike: only the sign of y is read)
Events(n) ==
    {[kind |-> "Touch", pos |-> p] : p \in RawCoords(n) \X RawCoords(n)}
    \cup {[kind |-> "KeyPressed", key |-> k] : k \in {"P", "C", "Other"}}
    \cup {[kind |-> "MouseWheel", phase |-> ph, y |-> y] :
              ph \in {"Moved", "Ended"}, y \in {-1, 0, 1}}
    \cup {[kind |-> "Other"]}

\* app.mouse: the left button, and the pointer's position (read only when
\* the button is down)
Mouse(n) ==
    {[down |-> FALSE, pos |-> <<0, 0>>]}
    \cup {[down |-> TRUE, pos |-> p] : p \in RawCoords(n) \X RawCoords(n)}

\* what op records of an event: the arm of the match it takes
EventLabel(ev) ==
    CASE ev.kind = "Touch" -> "Touch"
      [] ev.kind = "KeyPressed" /\ ev.key = "P" -> "KeyP"
      [] ev.kind = "KeyPressed" /\ ev.key = "C" -> "KeyC"
      [] ev.kind = "MouseWheel" /\ ev.phase = "Moved" /\ ev.y > 0 -> "WheelUp"
      [] ev.kind = "MouseWheel" /\ ev.phase = "Moved" /\ ev.y < 0 -> "WheelDown"
      [] OTHER -> "Ignored"

\* the host delivers an event between two updates
Event ==
    /\ pc = "idle"
    /\ \E mouse \in Mouse(GRID_SIZE) : \E ev \in Events(GRID_SIZE) :
           LET m == event([active |-> active, paused |-> paused, fill_state |-> fill_state],
                          GRID_SIZE, mouse.down, mouse.pos, ev)
           IN  /\ active' = m.active
               /\ paused' = m.paused
               /\ fill_state' = m.fill_state
               /\ inactive' = m.active
               /\ op' = [h |-> "event", ev |-> EventLabel(ev), down |-> mouse.down]
    /\ UNCHANGED <<GRID_SIZE, rules, elapsed, pc, rule_idx, cell_idx, fired, written, gen>>

Next == NextTick \/ Event

\* the Game of Life rules
Life == << Birth, Lonely, Crowded >>

\* engines of a 2 x 2 grid, with or without a seed, paused or not
Init ==
    \E seed \in {<< >>, Some(GridOf(2, {<<0, 0>>})), Some(GridOf(2, {<<0, 0>>, <<1, 0>>, <<0, 1>>}))} :
    \E p \in BOOLEAN :
        Constructed(2, seed, Life, p) /\ gen = MaxGen

Spec == Init /\ [][Next]_vars

\* the glider of the Game of Life on a 5 x 5 grid
Glider == {<<1, 0>>, <<2, 1>>, <<0, 2>>, <<1, 2>>, <<2, 2>>}

InitGlider == Constructed(5, Some(GridOf(5, Glider)), Life, FALSE) /\ gen = 0

SpecGlider == InitGlider /\ [][NextTick]_vars

\* one grain of sand at the top centre of a 3 x 3 grid, under the gravity
\* rule followed by the two slide rules in either order
InitSand ==
    \E rl \in {<< Gravity, SlideRight, SlideLeft >>, << Gravity, SlideLeft, SlideRight >>} :
        Constructed(3, Some(GridOf(3, {<<1, 0>>})), rl, FALSE) /\ gen = 0

SpecSand == InitSand /\ [][NextTick]_vars

\* the most neighbours a cell has: (-1..=1) x (-1..=1) without (0, 0)
MaxCount == 8

\* the bounds comparisons are built with: every count, and one above them
CompBounds == 0 .. (MaxCount + 1)

\* every Comparison over CompBounds
Comparisons ==
    {Equal(v) : v \in CompBounds}
    \cup {NotEqual(v) : v \in CompBounds}
    \cup {GreaterThan(v) : v \in CompBounds}
    \cup {LessThan(v) : v \in CompBounds}
    \cup {GreaterThanOrEqual(v) : v \in CompBounds}
    \cup {LessThanOrEqual(v) : v \in CompBounds}
    \cup {BetweenExclusive(lo, hi) : lo \in CompBounds, hi \in CompBounds}
    \cup {BetweenInclusive(lo, hi) : lo \in CompBounds, hi \in CompBounds}

\* the Radial rules with one requirement, which flip the anchor, and two
\* with none and with two requirements
CompareRules ==
    {Radial(cs, << Req(rs, comp) >>, next(cs)) :
        cs \in State, rs \in State, comp \in Comparisons}
    \cup {Fade, Hold}

\* the 3 x 3 grids whose centre has c Full neighbours, the first c of the
\* Moore neighbourhood, for every c, with the centre Full or Empty
CountGrids ==
    {GridOf(3, {<<1 + neighbour_offsets[k][1], 1 + neighbour_offsets[k][2]>> : k \in 1 .. c}
               \cup centre) :
        c \in 0 .. MaxCount, centre \in {{}, {<<1, 1>>}}}

\* engines of a 3 x 3 grid with one Radial rule, unpaused
InitCompare ==
    \E g \in CountGrids : \E r \in CompareRules :
        Constructed(3, Some(g), << r >>, FALSE) /\ gen = MaxGen

SpecCompare == InitCompare /\ [][NextTick]_vars

\* what op records of an event when the position of a touch is kept too
EventRecord(ev, down) ==
    IF ev.kind = "Touch"
    THEN [h |-> "event", ev |-> "Touch", down |-> down, pos |-> ev.pos]
    ELSE [h |-> "event", ev |-> EventLabel(ev), down |-> down]

\* event, with the position of a touch kept in op
PaintEvent ==
    /\ pc = "idle"
    /\ \E mouse \in Mouse(GRID_SIZE) : \E ev \in Events(GRID_SIZE) :
           LET m == event([active |-> active, paused |-> paused, fill_state |-> fill_state],
                          GRID_SIZE, mouse.down, mouse.pos, ev)
           IN  /\ active' = m.active
               /\ paused' = m.paused
               /\ fill_state' = m.fill_state
               /\ inactive' = m.active
               /\ op' = EventRecord(ev, mouse.down)
    /\ UNCHANGED <<GRID_SIZE, rules, elapsed, pc, rule_idx, cell_idx, fired, written, gen>>

\* the engines of Init under events only
SpecPaint == Init /\ [][PaintEvent]_vars

\* the host delivers a mouse wheel event with the button up
Scroll ==
    /\ pc = "idle"
    /\ \E ev \in {e \in Events(GRID_SIZE) : e.kind = "MouseWheel"} :
           LET m == event([active |-> active, paused |-> paused, fill_state |-> fill_state],
                          GRID_SIZE, FALSE, <<0, 0>>, ev)
           IN  /\ active' = m.active
               /\ paused' = m.paused
               /\ fill_state' = m.fill_state
               /\ inactive' = m.active
               /\ op' = [h |-> "event", ev |-> EventLabel(ev), down |-> FALSE]
    /\ UNCHANGED <<GRID_SIZE, rules, elapsed, pc, rule_idx, cell_idx, fired, written, gen>>

NextReplay == NextTick \/ Scroll

\* the engines of InitRules under updates at any time past the floor and
\* with either paint state
SpecReplay == InitRules /\ [][NextReplay]_vars

-----------------------------------------------------------------------------
(* What the claims speak of, stated without the operators above *)

\* the anchor update's loop is about to apply rule rule_idx at
Anchor == <<cell_idx \div GRID_SIZE, cell_idx % GRID_SIZE>>

\* update's loop is about to apply a Linear / a Radial rule
LinearStep ==
    pc = "advancing" /\ rule_idx <= Len(rules) /\ rules[rule_idx].kind = "Linear"
RadialStep ==
    pc = "advancing" /\ rule_idx <= Len(rules) /\ rules[rule_idx].kind = "Radial"

\* update's loop has applied a rule in this tick; which, and at which anchor
HasApplied ==
    \/ pc = "panicked"
    \/ pc = "advancing" /\ (cell_idx > 0 \/ rule_idx > 1)
AppliedRule ==
    IF pc = "panicked" \/ cell_idx > 0 THEN rules[rule_idx] ELSE rules[rule_idx - 1]
AppliedAnchor ==
    IF pc = "panicked" THEN Anchor
    ELSE IF cell_idx > 0
         THEN <<(cell_idx - 1) \div GRID_SIZE, (cell_idx - 1) % GRID_SIZE>>
         ELSE <<GRID_SIZE - 1, GRID_SIZE - 1>>

InGrid(x, y) == 0 <= x /\ x < GRID_SIZE /\ 0 <= y /\ y < GRID_SIZE

\* every non-wildcard entry of in_state is inside the grid at anchor a and
\* equals the cell there in grid g
PatternHolds(g, in_state, a) ==
    \A ri \in 1 .. Len(in_state) : \A rj \in 1 .. Len(in_state[ri]) :
        in_state[ri][rj] # None =>
            /\ InGrid(a[1] + ri - 1, a[2] + rj - 1)
            /\ g[a[1] + ri - 1][a[2] + rj - 1] = in_state[ri][rj]

\* some non-wildcard entry of in_state lies on a cell the buffer has changed
TouchesChangedCell(in_state, a) ==
    \E ri \in 1 .. Len(in_state) : \E rj \in 1 .. Len(in_state[ri]) :
        /\ in_state[ri][rj] # None
        /\ InGrid(a[1] + ri - 1, a[2] + rj - 1)
        /\ inactive[a[1] + ri - 1][a[2] + rj - 1] # active[a[1] + ri - 1][a[2] + rj - 1]

\* some non-wildcard entry of in_state lies outside the grid at anchor a
LeavesGrid(pattern, a) ==
    \E ri \in 1 .. Len(pattern) : \E rj \in 1 .. Len(pattern[ri]) :
        pattern[ri][rj] # None /\ ~ InGrid(a[1] + ri - 1, a[2] + rj - 1)

EqualShaped(rule) ==
    /\ Len(rule.in_state) = Len(rule.out_state)
    /\ \A ri \in 1 .. Len(rule.in_state) :
           Len(rule.in_state[ri]) = Len(rule.out_state[ri])

\* the Moore neighbourhood in signed arithmetic
MooreOffsets == ({-1, 0, 1} \X {-1, 0, 1}) \ {<<0, 0>>}

InRangeNeighbours(x, y) ==
    {d \in MooreOffsets : InGrid(x + d[1], y + d[2])}

\* how many in-range neighbours of (x, y) hold state s in grid g
TrueCount(g, x, y, s) ==
    Cardinality({d \in InRangeNeighbours(x, y) : g[x + d[1]][y + d[2]] = s})

OnEdge(c) == c = 0 \/ c = GRID_SIZE - 1

\* a Radial rule's condition at anchor (x, y) of the current grid
RadialFiresAt(rule, x, y) ==
    /\ rule.kind = "Radial"
    /\ rule.current_state = active[x][y]
    /\ \A p \in 1 .. Len(rule.surroundings) :
           compare(rule.surroundings[p].comp,
                   TrueCount(active, x, y, rule.surroundings[p].req_state))

\* update's loop is over and the buffer is about to become the grid
SwapStep == pc = "advancing" /\ rule_idx > Len(rules)

-----------------------------------------------------------------------------
(* C2 *)

\* C2: with rule lists whose Linear rules have equal-shaped in_state and
\* out_state, every write of a firing Linear rule lands inside the grid, so
\* a tick that passed the gate never aborts before the buffer swap.
C2_EveryLinearWriteInGrid ==
    (\A k \in 1 .. Len(rules) : rules[k].kind = "Linear" => EqualShaped(rules[k]))
        => pc # "panicked"

-----------------------------------------------------------------------------
(* C3 *)

\* C3: a Linear rule fires at the anchor iff every non-wildcard entry of
\* in_state is inside the grid and equals the cell at its offset both in the
\* current grid and in the buffer as written so far; an entry on a cell the
\* buffer has already changed, or outside the grid, keeps it from firing.
C3_LinearDualCheck ==
    [][LinearStep =>
          /\ fired' <=> (/\ PatternHolds(active, rules[rule_idx].in_state, Anchor)
                         /\ PatternHolds(inactive, rules[rule_idx].in_state, Anchor))
          /\ TouchesChangedCell(rules[rule_idx].in_state, Anchor) => ~ fired'
          /\ LeavesGrid(rules[rule_idx].in_state, Anchor) => ~ fired'
      ]_vars

\* a Linear rule whose pattern holds in the current grid was kept from firing
\* by a cell an earlier application changed in the buffer
C3_BlockedByBuffer ==
    /\ pc = "advancing"
    /\ HasApplied
    /\ AppliedRule.kind = "Linear"
    /\ ~ fired
    /\ PatternHolds(active, AppliedRule.in_state, AppliedAnchor)
    /\ TouchesChangedCell(AppliedRule.in_state, AppliedAnchor)

-----------------------------------------------------------------------------
(* C4 *)

\* C4 as claimed: when two Radial rules with different final_state both fire
\* at one anchor in a tick, the anchor's next state is the final_state of the
\* rule later in the list.
C4_LaterRuleWins ==
    [][SwapStep =>
          \A k1 \in 1 .. Len(rules) : \A k2 \in 1 .. Len(rules) :
          \A x \in Coords(GRID_SIZE) : \A y \in Coords(GRID_SIZE) :
              (/\ k1 < k2
               /\ RadialFiresAt(rules[k1], x, y)
               /\ RadialFiresAt(rules[k2], x, y)
               /\ rules[k1].final_state # rules[k2].final_state)
                  => active'[x][y] = rules[k2].final_state
      ]_vars

\* C4, amended: when two Radial rules with different final_state both fire at
\* one anchor in a tick and no rule after the later of them writes that cell
\* in the same tick, the anchor's next state is the later rule's final_state.
C4_LaterRuleWinsUnlessOverwritten ==
    [][SwapStep =>
          \A k1 \in 1 .. Len(rules) : \A k2 \in 1 .. Len(rules) :
          \A x \in Coords(GRID_SIZE) : \A y \in Coords(GRID_SIZE) :
              (/\ k1 < k2
               /\ RadialFiresAt(rules[k1], x, y)
               /\ RadialFiresAt(rules[k2], x, y)
               /\ rules[k1].final_state # rules[k2].final_state
               /\ written[x][y] <= k2)
                  => active'[x][y] = rules[k2].final_state
      ]_vars

\* two Radial rules with different final_state have both fired at an anchor,
\* the later one wrote last, and the buffer is about to become the grid
C4_BothFired ==
    /\ SwapStep
    /\ \E k1 \in 1 .. Len(rules) : \E k2 \in 1 .. Len(rules) :
       \E x \in Coords(GRID_SIZE) : \E y \in Coords(GRID_SIZE) :
           /\ k1 < k2
           /\ RadialFiresAt(rules[k1], x, y)
           /\ RadialFiresAt(rules[k2], x, y)
           /\ rules[k1].final_state # rules[k2].final_state
           /\ written[x][y] = k2
           /\ inactive[x][y] = rules[k2].final_state
           /\ inactive[x][y] # active[x][y]

-----------------------------------------------------------------------------
(* C5 *)

\* C5: at every anchor update's loop applies a Radial rule at, in every
\* grid, the Radial neighbour count of each state is the number of in-range Moore neighbours holding it (nothing is
\* counted through the wrapped cast at 0 or beyond N-1): the counts of Full
\* and Empty sum to the number of in-range neighbours, at most 3 at a
\* corner, 5 on an edge and 8 inside.
C5_BoundarySafety ==
    RadialStep =>
        LET x == Anchor[1]
            y == Anchor[2]
            nFull == neighbour_count(active, GRID_SIZE, Anchor, Full)
            nEmpty == neighbour_count(active, GRID_SIZE, Anchor, Empty)
        IN  /\ nFull = TrueCount(active, x, y, Full)
            /\ nEmpty = TrueCount(active, x, y, Empty)
            /\ nFull + nEmpty = Cardinality(InRangeNeighbours(x, y))
            /\ (OnEdge(x) /\ OnEdge(y)) => nFull + nEmpty <= 3
            /\ (OnEdge(x) \/ OnEdge(y)) => nFull + nEmpty <= 5
            /\ nFull + nEmpty <= 8

\* a Radial rule whose condition counts neighbours has fired at the corner
\* (0, 0) of a 3 x 3 grid, all three of whose neighbours are Full
C5_FiredAtCorner ==
    /\ GRID_SIZE = 3
    /\ pc = "advancing"
    /\ HasApplied
    /\ AppliedRule.kind = "Radial"
    /\ Len(AppliedRule.surroundings) > 0
    /\ AppliedAnchor = <<0, 0>>
    /\ fired
    /\ TrueCount(active, 0, 0, Full) = 3

-----------------------------------------------------------------------------
(* C8 *)

\* C8: whether a Linear rule fires is decided by the non-wildcard entries of
\* in_state alone, whatever the cells at the wildcard offsets hold and also
\* when those offsets are outside the grid; and a firing writes nothing at a
\* wildcard offset of out_state: the buffer cell there keeps its value.
C8_LinearWildcards ==
    [][LinearStep =>
          /\ (/\ PatternHolds(active, rules[rule_idx].in_state, Anchor)
              /\ PatternHolds(inactive, rules[rule_idx].in_state, Anchor)) => fired'
          /\ \A ri \in 1 .. Len(rules[rule_idx].out_state) :
             \A rj \in 1 .. Len(rules[rule_idx].out_state[ri]) :
                 (/\ rules[rule_idx].out_state[ri][rj] = None
                  /\ InGrid(Anchor[1] + ri - 1, Anchor[2] + rj - 1))
                     => inactive'[Anchor[1] + ri - 1][Anchor[2] + rj - 1]
                            = inactive[Anchor[1] + ri - 1][Anchor[2] + rj - 1]
      ]_vars

\* a Linear rule has fired at an anchor where a wildcard of its in_state lies
\* outside the grid, and where out_state has a wildcard too
C8_FiredPastWildcard ==
    /\ pc = "advancing"
    /\ HasApplied
    /\ AppliedRule.kind = "Linear"
    /\ fired
    /\ \E ri \in 1 .. Len(AppliedRule.in_state) :
       \E rj \in 1 .. Len(AppliedRule.in_state[ri]) :
           /\ AppliedRule.in_state[ri][rj] = None
           /\ AppliedRule.out_state[ri][rj] = None
           /\ ~ InGrid(AppliedAnchor[1] + ri - 1, AppliedAnchor[2] + rj - 1)

-----------------------------------------------------------------------------
(* C9 *)

\* a Linear rule's patterns fit the grid at some anchor
FitsGrid(pattern) ==
    /\ Len(pattern) <= GRID_SIZE
    /\ \A ri \in 1 .. Len(pattern) : Len(pattern[ri]) <= GRID_SIZE

\* a comparison's range is not inverted
RangeOrdered(comp) ==
    comp.tag \in {"BetweenExclusive", "BetweenInclusive"} => comp.lower <= comp.upper

WellConfigured(rule) ==
    IF rule.kind = "Linear"
    THEN FitsGrid(rule.in_state) /\ FitsGrid(rule.out_state)
    ELSE \A p \in 1 .. Len(rule.surroundings) : RangeOrdered(rule.surroundings[p].comp)

\* C9: construction rejects a Linear rule whose pattern exceeds the grid in
\* either axis and a Between comparison with lo > hi, so no engine holds such
\* a rule.
C9_ConfigurationRejected ==
    \A k \in 1 .. Len(rules) : WellConfigured(rules[k])

-----------------------------------------------------------------------------
(* C1 *)

\* cells differ between the grid before and after only where the new cell is
\* the paint state (one or two paints), or the new grid is the all-Empty one
PaintedOrReset ==
    \/ active' = default_grid(GRID_SIZE)
    \/ \A x \in Coords(GRID_SIZE) : \A y \in Coords(GRID_SIZE) :
           active'[x][y] # active[x][y] => active'[x][y] = fill_state

\* C1: while paused, a call of update at any elapsed time leaves the grid
\* (and the pause flag) unchanged, so any number of consecutive calls do;
\* the grid changes while paused only by an event that paints or resets.
C1_PausedGridFrozen ==
    [][paused =>
          /\ op'.h = "update" => (active' = active /\ paused' = paused /\ pc' = "idle")
          /\ active' # active => (op'.h = "event" /\ PaintedOrReset)
      ]_vars

\* update has been called on a paused engine past the pacing floor, with a
\* grid (one Full cell) that the Game of Life rules would change
C1_UpdateCalledWhilePaused ==
    /\ paused
    /\ op.h = "update"
    /\ elapsed >= MIN_INTERVAL
    /\ rules = Life
    /\ active = GridOf(GRID_SIZE, {<<0, 0>>})

-----------------------------------------------------------------------------
(* C6 *)

\* C6: on the 5 x 5 grid seeded with the glider, under the three Game of Life
\* rules, the grid after exactly 4 ticks is the glider moved by (1, 1).
C6_GliderAfterFourTicks ==
    (pc = "idle" /\ gen = 4)
        => active = GridOf(5, {<<2, 1>>, <<3, 2>>, <<1, 3>>, <<2, 3>>, <<3, 3>>})

\* the fourth tick of the glider run has ended
C6_FourTicksDone ==
    /\ pc = "idle"
    /\ gen = 4
    /\ op.h = "update"
    /\ rules = Life
    /\ GRID_SIZE = 5
    /\ \A c \in Glider : active[c[1] + 1][c[2] + 1] = Full

-----------------------------------------------------------------------------
(* C7 *)

\* C7: on the 3 x 3 grid with only (1, 0) Full, under the gravity rules, the
\* Full cell moves one row per tick: after 1 tick exactly (1, 1) is Full,
\* after 2 ticks exactly (1, 2) is Full.
C7_SandFallsOneRowPerTick ==
    /\ (pc = "idle" /\ gen = 1) => active = GridOf(3, {<<1, 1>>})
    /\ (pc = "idle" /\ gen = 2) => active = GridOf(3, {<<1, 2>>})

\* the second tick of the sand run has ended with the grain at the bottom
C7_TwoTicksDone ==
    /\ pc = "idle"
    /\ gen = 2
    /\ op.h = "update"
    /\ rules[1] = Gravity
    /\ active[1][2] = Full

-----------------------------------------------------------------------------
(* C10 *)

\* C10: after a key C event the grid is all Empty, whatever it was and also
\* when the button was down and the event painted first; the event leaves
\* the pause flag, the paint state and the rule list as they were.
C10_ResetEmptiesGrid ==
    [][(op'.h = "event" /\ op'.ev = "KeyC") =>
          /\ active' = [x \in Coords(GRID_SIZE) |-> [y \in Coords(GRID_SIZE) |-> Empty]]
          /\ paused' = paused
          /\ fill_state' = fill_state
          /\ rules' = rules
      ]_vars

\* a key C event has been handled with the button down and the paint state
\* Full, on a paused engine: the event painted a Full cell and then reset
C10_ResetWithButtonDown ==
    /\ op.h = "event"
    /\ op.ev = "KeyC"
    /\ op.down
    /\ fill_state = Full
    /\ paused
    /\ \A x \in Coords(GRID_SIZE) : \A y \in Coords(GRID_SIZE) : active[x][y] = Empty

-----------------------------------------------------------------------------
(* C11 *)

\* C11: a call of update less than MIN_INTERVAL ms after the last performed
\* tick, or after construction, changes neither the grid nor the time of the
\* last tick (elapsed is not reset) and starts no loop; an unpaused call at or
\* after MIN_INTERVAL ms, however long after (elapsed saturates at
\* MaxElapsed), sets the time of the last tick to now and runs the loop over
\* the rules once, from the first rule and the first cell on a copy of the
\* grid to the one swap, after which the floor has to pass again.  The time
\* of the last tick is set by nothing else.
C11_PacingGate ==
    [][/\ (op # OpUpdate /\ op' = OpUpdate /\ elapsed < MIN_INTERVAL)
              => (active' = active /\ elapsed' = elapsed /\ pc' = "idle")
       /\ (pc = "idle" /\ elapsed < MIN_INTERVAL /\ op'.h = "update")
              => (active' = active /\ elapsed' >= elapsed /\ pc' = "idle")
       /\ (op # OpUpdate /\ op' = OpUpdate /\ ~ paused /\ elapsed >= MIN_INTERVAL)
              => (/\ pc' = "advancing"
                  /\ elapsed' = 0
                  /\ active' = active
                  /\ inactive' = active
                  /\ rule_idx' = 1
                  /\ cell_idx' = 0)
       /\ (pc = "idle" /\ pc' # "idle")
              => (~ paused /\ elapsed >= MIN_INTERVAL /\ elapsed' = 0 /\ op' = OpUpdate)
       /\ elapsed' < elapsed => (pc = "idle" /\ pc' = "advancing")
       /\ (pc = "advancing" /\ pc' = "idle")
              => (active' = inactive /\ rule_idx = Len(rules) + 1 /\ elapsed' < MIN_INTERVAL)
      ]_vars

\* update was the last handler called on an unpaused engine, some time
\* after the last tick and before the floor, and the grid still has the one Full cell that a tick of the
\* Game of Life rules would have cleared: the call was dropped
C11_RequestDropped ==
    /\ ~ paused
    /\ pc = "idle"
    /\ op = OpUpdate
    /\ 0 < elapsed /\ elapsed < MIN_INTERVAL
    /\ rules = Life
    /\ active = GridOf(GRID_SIZE, {<<0, 0>>})

-----------------------------------------------------------------------------
(* C12 *)

\* a raw coordinate brought into [0, N-1]
ClampedInto(v) == IF v < 0 THEN 0 ELSE IF v > GRID_SIZE - 1 THEN GRID_SIZE - 1 ELSE v

-----------------------------------------------------------------------------
(* C13 *)

\* C13: a tick starts with the first rule at anchor (0, 0); each pass of the
\* loop applies the current rule at the current anchor (what it writes, it
\* writes from that anchor on, a Radial rule at the anchor only) and moves to
\* the next anchor in column-major order, y ascending within x ascending,
\* and from the last anchor (N-1, N-1) to the next rule at (0, 0); so rule k
\* is applied at every anchor once before rule k+1 is applied at any.  The
\* swap comes only after the last rule's last anchor, and a pass that does
\* not move on has stopped the loop for good.
C13_RuleMajorColumnMajor ==
    [][/\ (pc = "idle" /\ pc' = "advancing") => (rule_idx' = 1 /\ Anchor' = <<0, 0>>)
       /\ (pc = "advancing" /\ rule_idx <= Len(rules)) =>
              /\ \A x \in Coords(GRID_SIZE) : \A y \in Coords(GRID_SIZE) :
                     (written'[x][y] # written[x][y] \/ inactive'[x][y] # inactive[x][y])
                         => /\ written'[x][y] = rule_idx
                            /\ x >= Anchor[1] /\ y >= Anchor[2]
                            /\ rules[rule_idx].kind = "Radial" => <<x, y>> = Anchor
              /\ pc' = "advancing" =>
                     IF Anchor[2] < GRID_SIZE - 1
                     THEN rule_idx' = rule_idx /\ Anchor' = <<Anchor[1], Anchor[2] + 1>>
                     ELSE IF Anchor[1] < GRID_SIZE - 1
                          THEN rule_idx' = rule_idx /\ Anchor' = <<Anchor[1] + 1, 0>>
                          ELSE rule_idx' = rule_idx + 1 /\ Anchor' = <<0, 0>>
              /\ pc' # "advancing" =>
                     (pc' = "panicked" /\ rule_idx' = rule_idx /\ Anchor' = Anchor)
       /\ (pc = "advancing" /\ pc' = "idle") =>
              (rule_idx = Len(rules) + 1 /\ Anchor = <<0, 0>>)
       /\ pc = "panicked" => pc' = "panicked"
      ]_vars

\* on a 3 x 3 grid the first rule, a Radial one, has written the first
\* anchor (0, 0) and the last anchor (2, 2), and the second rule is about to
\* be applied at (0, 0)
C13_SecondRuleStarts ==
    /\ GRID_SIZE = 3
    /\ pc = "advancing"
    /\ rule_idx = 2
    /\ rule_idx <= Len(rules)
    /\ Anchor = <<0, 0>>
    /\ rules[1].kind = "Radial"
    /\ written[0][0] = 1
    /\ written[2][2] = 1

-----------------------------------------------------------------------------
(* C14 *)

\* out_state laid over grid buf at anchor a: its non-wildcard entries
\* replace the cells at their offsets
Stamped(buf, out_state, a) ==
    [x \in Coords(GRID_SIZE) |-> [y \in Coords(GRID_SIZE) |->
        LET ri == x - a[1] + 1
            rj == y - a[2] + 1
        IN  IF /\ ri \in 1 .. Len(out_state)
               /\ rj \in 1 .. Len(out_state[ri])
               /\ out_state[ri][rj] # None
            THEN out_state[ri][rj]
            ELSE buf[x][y]]]

\* what one rule does to the buffer buf at anchor a, given the current grid
NextBuffer(buf, rule, a) ==
    IF rule.kind = "Radial"
    THEN IF RadialFiresAt(rule, a[1], a[2])
         THEN [buf EXCEPT ![a[1]][a[2]] = rule.final_state]
         ELSE buf
    ELSE IF PatternHolds(active, rule.in_state, a) /\ PatternHolds(buf, rule.in_state, a)
         THEN Stamped(buf, rule.out_state, a)
         ELSE buf

\* the buffer after the rules of rl from the k-th on have been applied, the
\* k-th from the c-th anchor of the column-major scan on
RECURSIVE Scanned(_, _, _, _)
Scanned(rl, buf, k, c) ==
    IF k > Len(rl) THEN buf
    ELSE LET nb == NextBuffer(buf, rl[k], <<c \div GRID_SIZE, c % GRID_SIZE>>)
         IN  IF c + 1 = GRID_SIZE * GRID_SIZE
             THEN Scanned(rl, nb, k + 1, 0)
             ELSE Scanned(rl, nb, k, c + 1)

\* the next generation as a function of the current grid and the rule list
NextGeneration == Scanned(rules, active, 1, 0)

\* C14: the grid a completed tick leaves is the value of one function of the
\* grid before the tick and the rule list, whatever the paint state is and
\* however long after the last tick the update comes; so two runs from one
\* seed under one rule list have the same grid after every tick.
C14_NextGridIsAFunction ==
    [][SwapStep => active' = NextGeneration]_vars

\* a tick that changes a 3 x 3 grid is about to end on an engine whose paint
\* state a wheel event has made Full
C14_TickWithPaintFull ==
    /\ SwapStep
    /\ GRID_SIZE = 3
    /\ fill_state = Full
    /\ Len(rules) >= 2
    /\ inactive # active
    /\ inactive = NextGeneration

-----------------------------------------------------------------------------
(* C15 *)

\* C15: next and prev are the same function on {Full, Empty}, the one that
\* maps Empty to Full and Full to Empty, so prev(next(s)) = s and
\* next(next(s)) = s; a wheel event in either direction flips the paint
\* state and leaves the pause flag, the rule list and the time of the last
\* tick as they were, and the grid too when the button is up (when it is
\* down the event first paints, with the paint state as it was before); and
\* the paint state of an engine just constructed is Empty.
C15_PaintStateTwoCycle ==
    [][/\ \A s \in State :
              /\ next(s) = prev(s)
              /\ next(s) \in State \ {s}
              /\ prev(next(s)) = s
              /\ next(next(s)) = s
       /\ next(Empty) = Full /\ next(Full) = Empty
       /\ prev(Empty) = Full /\ prev(Full) = Empty
       /\ op = OpModel => fill_state = Empty
       /\ (op'.h = "event" /\ op'.ev \in {"WheelUp", "WheelDown"}) =>
              /\ fill_state' \in State \ {fill_state}
              /\ paused' = paused
              /\ rules' = rules
              /\ elapsed' = elapsed
              /\ pc' = pc
              /\ ~ op'.down => active' = active
              /\ \A x \in Coords(GRID_SIZE) : \A y \in Coords(GRID_SIZE) :
                     active'[x][y] # active[x][y] => active'[x][y] = fill_state
      ]_vars

\* the last event was a wheel event downwards with the button up, it left
\* the paint state Empty, and the grid holds a Full cell painted before it:
\* the event took the paint state from Full back to Empty
C15_CycledBackToEmpty ==
    /\ op.h = "event"
    /\ op.ev = "WheelDown"
    /\ ~ op.down
    /\ fill_state = Empty
    /\ active = GridOf(GRID_SIZE, {<<1, 1>>})

-----------------------------------------------------------------------------
(* C16 *)

\* the rule lists that hold the rules of rl in another order
Reorderings(rl) ==
    {[i \in 1 .. Len(rl) |-> rl[f[i]]] :
        f \in {g \in [1 .. Len(rl) -> 1 .. Len(rl)] :
                  \A i, j \in 1 .. Len(rl) : g[i] = g[j] => i = j}}

RadialOnly == \A k \in 1 .. Len(rules) : rules[k].kind = "Radial"

\* no two rules with different final_state fire together at an anchor of the
\* current grid
NoTwoFireApart ==
    \A k1 \in 1 .. Len(rules) : \A k2 \in 1 .. Len(rules) :
    \A x \in Coords(GRID_SIZE) : \A y \in Coords(GRID_SIZE) :
        (RadialFiresAt(rules[k1], x, y) /\ RadialFiresAt(rules[k2], x, y))
            => rules[k1].final_state = rules[k2].final_state

\* the surroundings of a Radial rule hold at (x, y) when counted in grid g
SurroundingsHoldIn(g, rule, x, y) ==
    \A p \in 1 .. Len(rule.surroundings) :
        compare(rule.surroundings[p].comp,
                TrueCount(g, x, y, rule.surroundings[p].req_state))

\* C16: a Radial rule fires at the anchor iff the anchor of the current grid
\* holds current_state and the neighbour counts of the current grid satisfy
\* its surroundings, whatever has been written to the buffer, and a firing
\* writes final_state to the anchor of the buffer and nothing else; hence
\* under a rule list of Radial rules no two of which fire at one anchor with
\* different final_state, every order of the rules gives the grid the tick
\* leaves.
C16_RadialReadsCurrentGridOnly ==
    [][/\ RadialStep =>
              /\ fired' <=> RadialFiresAt(rules[rule_idx], Anchor[1], Anchor[2])
              /\ inactive' = IF RadialFiresAt(rules[rule_idx], Anchor[1], Anchor[2])
                             THEN [inactive EXCEPT ![Anchor[1]][Anchor[2]] =
                                                       rules[rule_idx].final_state]
                             ELSE inactive
       /\ (SwapStep /\ RadialOnly /\ NoTwoFireApart) =>
              \A rl \in Reorderings(rules) : Scanned(rl, active, 1, 0) = active'
      ]_vars

\* a Radial rule has fired at an anchor although the neighbour counts of
\* the buffer, changed by earlier applications, do not satisfy its
\* surroundings
C16_FiredAgainstBuffer ==
    /\ pc = "advancing"
    /\ HasApplied
    /\ AppliedRule.kind = "Radial"
    /\ fired
    /\ SurroundingsHoldIn(active, AppliedRule, AppliedAnchor[1], AppliedAnchor[2])
    /\ ~ SurroundingsHoldIn(inactive, AppliedRule, AppliedAnchor[1], AppliedAnchor[2])

-----------------------------------------------------------------------------
(* C17 *)

\* no rule of the list fires at any anchor of the current grid (with no
\* write made, the buffer a Linear rule also tests is the current grid)
NothingFires ==
    \A k \in 1 .. Len(rules) :
    \A x \in Coords(GRID_SIZE) : \A y \in Coords(GRID_SIZE) :
        IF rules[k].kind = "Radial"
        THEN ~ RadialFiresAt(rules[k], x, y)
        ELSE ~ PatternHolds(active, rules[k].in_state, <<x, y>>)

\* C17: the buffer of a tick starts as a copy of the current grid, and when
\* the tick completes every cell that no firing rule wrote during it has the
\* state it had before; so a tick with an empty rule list, or in which no
\* rule fires, leaves the grid as it was.
C17_TickFrame ==
    [][/\ (pc = "idle" /\ pc' = "advancing") => inactive' = active
       /\ SwapStep =>
              /\ \A x \in Coords(GRID_SIZE) : \A y \in Coords(GRID_SIZE) :
                     written[x][y] = 0 => active'[x][y] = active[x][y]
              /\ Len(rules) = 0 => active' = active
              /\ NothingFires => (active' = active /\ written = NoneWritten(GRID_SIZE))
      ]_vars

\* a tick on a 3 x 3 grid is about to end in which a rule changed a cell
\* and no rule wrote some Full cell, which the buffer still holds
C17_UnwrittenCellKept ==
    /\ SwapStep
    /\ GRID_SIZE = 3
    /\ \E x \in Coords(GRID_SIZE) : \E y \in Coords(GRID_SIZE) :
           written[x][y] > 0 /\ inactive[x][y] # active[x][y]
    /\ \E x \in Coords(GRID_SIZE) : \E y \in Coords(GRID_SIZE) :
           written[x][y] = 0 /\ active[x][y] = Full /\ inactive[x][y] = Full

-----------------------------------------------------------------------------
(* C18 *)

\* the counts in 0..8 that a comparison is satisfied by, as an interval
Satisfying(comp) ==
    (0 .. MaxCount) \cap
    (CASE comp.tag = "Equal" -> {comp.value}
       [] comp.tag = "NotEqual" -> (0 .. MaxCount) \ {comp.value}
       [] comp.tag = "GreaterThan" -> (comp.value + 1) .. MaxCount
       [] comp.tag = "LessThan" -> 0 .. (comp.value - 1)
       [] comp.tag = "GreaterThanOrEqual" -> comp.value .. MaxCount
       [] comp.tag = "LessThanOrEqual" -> 0 .. comp.value
       [] comp.tag = "BetweenExclusive" -> (comp.lower + 1) .. (comp.upper - 1)
       [] comp.tag = "BetweenInclusive" -> comp.lower .. comp.upper)

\* C18: compare returns, for every count c in 0..8 and every bound, whether
\* c stands in the comparison's relation to the bound or bounds (c = v,
\* c /= v, c > v, c < v, c >= v, c <= v, lo < c < hi, lo <= c <= hi); a
\* Radial rule fires at the anchor iff the anchor holds current_state and,
\* for every pair of its surroundings, the number of in-range neighbours in
\* the required state satisfies the comparison; a rule with no pair fires
\* wherever the anchor holds current_state.
C18_ComparisonAndRadialFiring ==
    [][RadialStep =>
          LET r == rules[rule_idx]
              x == Anchor[1]
              y == Anchor[2]
          IN  /\ \A p \in 1 .. Len(r.surroundings) : \A c \in 0 .. MaxCount :
                     compare(r.surroundings[p].comp, c)
                         <=> c \in Satisfying(r.surroundings[p].comp)
              /\ fired' <=>
                     (/\ active[x][y] = r.current_state
                      /\ \A p \in 1 .. Len(r.surroundings) :
                             TrueCount(active, x, y, r.surroundings[p].req_state)
                                 \in Satisfying(r.surroundings[p].comp))
              /\ Len(r.surroundings) = 0 => (fired' <=> active[x][y] = r.current_state)
      ]_vars

\* a rule that wants the number of Full neighbours strictly between 7 and 9
\* has fired at the centre of a 3 x 3 grid, which has 8
C18_FiredBetweenBounds ==
    /\ pc = "advancing"
    /\ HasApplied
    /\ AppliedRule.kind = "Radial"
    /\ AppliedRule.surroundings = << Req(Full, BetweenExclusive(7, 9)) >>
    /\ AppliedAnchor = <<1, 1>>
    /\ fired
    /\ TrueCount(active, 1, 1, Full) = 8

-----------------------------------------------------------------------------
(* C19 *)

\* how many entries of a pattern hold state s
EntryCount(pattern, s) ==
    Cardinality({o \in Offsets(pattern) : Entry(pattern, o) = s})

\* a Linear rule whose patterns have one shape, wildcards at the same
\* positions, and the same number of entries of each state
Rearranging(rule) ==
    /\ rule.kind = "Linear"
    /\ EqualShaped(rule)
    /\ \A o \in Offsets(rule.in_state) :
           Entry(rule.in_state, o) = None <=> Entry(rule.out_state, o) = None
    /\ \A s \in State : EntryCount(rule.in_state, s) = EntryCount(rule.out_state, s)

AllRearranging == \A k \in 1 .. Len(rules) : Rearranging(rules[k])

\* the number of Full cells of grid g
FullCount(g) ==
    Cardinality({c \in Coords(GRID_SIZE) \X Coords(GRID_SIZE) : g[c[1]][c[2]] = Full})

\* C19: when every rule of the list is a Linear rule whose in_state and
\* out_state have the same shape, wildcards at the same positions and the
\* same non-wildcard values rearranged, no application of a rule changes the
\* number of Full cells of the buffer or stops the loop, so every tick leaves
\* the grid with as many Full cells as it had.
C19_FullCellsConserved ==
    [][AllRearranging =>
          /\ (pc = "advancing" /\ rule_idx <= Len(rules)) =>
                 /\ FullCount(inactive') = FullCount(inactive)
                 /\ FullCount(inactive) = FullCount(active)
                 /\ pc' = "advancing"
          /\ SwapStep => FullCount(active') = FullCount(active)
      ]_vars

\* a tick of three rearranging rules on a 3 x 3 grid is about to end: the
\* second or third rule has written a cell, the buffer differs from the
\* grid, and both hold the same two or more Full cells in number
C19_RearrangedTick ==
    /\ SwapStep
    /\ GRID_SIZE = 3
    /\ Len(rules) = 3
    /\ AllRearranging
    /\ \E x \in Coords(GRID_SIZE) : \E y \in Coords(GRID_SIZE) : written[x][y] >= 2
    /\ inactive # active
    /\ FullCount(active) >= 2
    /\ FullCount(inactive) = FullCount(active)

====
